---- MODULE Spec2Model ----
(***************************************************************************)
(* caikit time-series data model: the scoped cache guard (dfcache.py), the *)
(* grouping emulator (util.py), the distributed backends                   *)
(* (_spark_backends.py) and the TimeSeries facade (timeseries.py).         *)
(*                                                                         *)
(* Two specifications share the module:                                    *)
(*   Spec    one distributed table, the guards opened over it and the      *)
(*           get_attribute calls of the two distributed backends;          *)
(*   SpecTS  one TimeSeries entity: construction, len, as_pandas, as_spark.*)
(*                                                                         *)
(* Cells are integers.  A key cell is a code for the value it holds (see   *)
(* StrVal); Null is Python's None / a SQL NULL / a pandas NaN.             *)
(***************************************************************************)
EXTENDS Integers, Sequences, FiniteSets, TLC

VARIABLES
    \* ---- Spec: a distributed table and its backends
    df,               \* the pyspark DataFrame the backends hold (_pyspark_df)
    hasCache,         \* hasattr(dataframe, "cache")
    is_cached,        \* DataFrame.is_cached, the table's pin state
    key_column,       \* SparkMultiTimeSeriesBackend._key_column
    timestamp_column, \* SparkMultiTimeSeriesBackend._timestamp_column
    value_columns,    \* SparkMultiTimeSeriesBackend._value_columns
    guards,           \* the EnsureCached instances alive, outermost first
    scope,            \* history of the outermost guard's scope
    last,             \* the last get_attribute call and how it ended
    \* ---- SpecTS: one TimeSeries entity
    ts,               \* the entity: its timeseries, id_labels and _backend
    out,              \* the last call on the entity and what it returned
    held0,            \* the tables the entity held when it was constructed
    conv              \* how often each conversion has been carried out

bvars == <<df, hasCache, is_cached, key_column, timestamp_column, value_columns,
           guards, scope, last>>
fvars == <<ts, out, held0, conv>>
vars == <<bvars, fvars>>

----------------------------------------------------------------------------
(* Bounds *)
MaxRows == 2
MaxNest == 2
MaxSeries == 2

----------------------------------------------------------------------------
(* Values *)

Null == 0 - 1
NoneStr == "<None>"

\* A key cell holds a string; its code stands for that string.
KeyCodes == {1, 2, 3}
KeyVals == KeyCodes \cup {Null}

\* The text of a non-null key cell.
StrVal(v) ==
    CASE v = 1 -> "a"
      [] v = 2 -> "None"
      [] v = 3 -> "o'k"
      [] OTHER -> "?"

\* f"{v}": what the f-string of mock_pd_groupby writes for a value.
PyFormat(v) == IF v = Null THEN "None" ELSE StrVal(v)

\* A single quote inside the quoted literal ends it early: the filter
\* expression does not parse.
HasQuote(s) == s = "o'k"

\* Python's `sub in s` for two strings, over the column names of the model.
ProperSubstrings == {<<"d", "id">>, <<"i", "id">>}
StrContains(s, sub) == sub = s \/ <<sub, s>> \in ProperSubstrings

----------------------------------------------------------------------------
(* Tables: an ordered list of column names and an ordered list of rows, a  *)
(* row being a function from the column names to cells.                    *)

Range(s) == {s[i] : i \in DOMAIN s}

\* The element of a one-element set (binds a result that is used repeatedly).
Only(S) == CHOOSE x \in S : TRUE

SeqsOfSet(S) ==
    {s \in [1..Cardinality(S) -> S] : \A i, j \in 1..Cardinality(S) : s[i] = s[j] => i = j}

RECURSIVE SelectSeq2(_, _)
\* the elements of s that pass Test, in order (Test is a set of indices)
SelectSeq2(s, keep) ==
    IF s = <<>> THEN <<>>
    ELSE LET n == Len(s)
             front == SelectSeq2(SubSeq(s, 1, n - 1), keep)
         IN IF n \in keep THEN Append(front, s[n]) ELSE front

\* df[c] = values: writes column c (appended to the columns when new).
SetColumn(t, c, vals) ==
    [cols |-> IF c \in Range(t.cols) THEN t.cols ELSE Append(t.cols, c),
     rows |-> [i \in DOMAIN t.rows |->
                 [x \in DOMAIN t.rows[i] \cup {c} |->
                     IF x = c THEN vals[i] ELSE t.rows[i][x]]]]

\* The table without column c.
DropColumn(t, c) ==
    [cols |-> SelectSeq2(t.cols, {i \in DOMAIN t.cols : t.cols[i] # c}),
     rows |-> [i \in DOMAIN t.rows |->
                 [x \in DOMAIN t.rows[i] \ {c} |-> t.rows[i][x]]]]

\* The key-tuple of a row.
KeyOf(row, by) == [i \in DOMAIN by |-> row[by[i]]]

----------------------------------------------------------------------------
(* dfcache.py: EnsureCached *)

\* A guard that always believes it pinned the table.
EnsureCachedInitAlwaysOwns(canCache, cached) ==
    [did_cache |-> canCache, is_cached |-> canCache \/ cached]

\* __init__: pin the table when it can be pinned and is not; remember it.
EnsureCachedInit(canCache, cached) ==
    IF canCache /\ ~cached
    THEN [did_cache |-> TRUE, is_cached |-> TRUE]
    ELSE [did_cache |-> FALSE, is_cached |-> cached]

\* An exit that unpins whoever pinned.
EnsureCachedExitAlways(g, cached) ==
    [is_cached |-> FALSE, unpersisted |-> 1]

\* __exit__: unpersist() when this guard pinned; runs on every exit path of
\* the with block.
EnsureCachedExit(g, cached) ==
    IF g.did_cache
    THEN [is_cached |-> FALSE, unpersisted |-> 1]
    ELSE [is_cached |-> cached, unpersisted |-> 0]

----------------------------------------------------------------------------
(* util.py: mock_pd_groupby *)

\* a_df_like.select(by).distinct(): the distinct key-tuples of the table.
DistinctKeys(t, by) == {KeyOf(t.rows[i], by) : i \in DOMAIN t.rows}

\* The filter text " k == 'v' and ..." fails to parse when a value's text
\* holds a quote.
FilterRaises(dkey) == \E i \in DOMAIN dkey : HasQuote(PyFormat(dkey[i]))

\* a_df_like.filter(filter_statement): k == 'v' holds of a row whose cell k
\* is not NULL and has the text v.
FilterMatches(row, by, dkey) ==
    \A i \in DOMAIN by :
        /\ row[by[i]] # Null
        /\ StrVal(row[by[i]]) = PyFormat(dkey[i])

FilterRows(t, by, dkey) ==
    [cols |-> t.cols,
     rows |-> SelectSeq2(t.rows, {i \in DOMAIN t.rows : FilterMatches(t.rows[i], by, dkey)})]

\* value[0] if len(value) == 1 else value
GroupValue(dkey) ==
    IF Len(dkey) = 1
    THEN [scalar |-> TRUE, v |-> dkey[1], tuple |-> <<>>]
    ELSE [scalar |-> FALSE, v |-> Null, tuple |-> dkey]

\* The pairs the generator yields, in the order the engine returned the
\* distinct keys (`order`, which the engine chooses), or the exception the
\* first unparsable filter raises.
mock_pd_groupby(t, by, order) ==
    IF \E i \in DOMAIN order : FilterRaises(order[i])
    THEN [raised |-> TRUE, pairs |-> <<>>]
    ELSE [raised |-> FALSE,
          pairs |-> [i \in DOMAIN order |->
                       [value |-> GroupValue(order[i]),
                        sub_df |-> FilterRows(t, by, order[i])]]]

----------------------------------------------------------------------------
(* _spark_backends.py *)

\* `col not in key_column`: a substring test when key_column is a string,
\* a membership test when it is a sequence.
InKeyColumn(col, kc) ==
    IF kc.isStr THEN StrContains(kc.s, col) ELSE col \in Range(kc.names)

\* SparkMultiTimeSeriesBackend.__init__: value_columns or [the columns that
\* are neither the timestamp nor `in key_column`].
SparkMultiValueColumns(cols, kc, ts_col, given) ==
    IF given # <<>> THEN given
    ELSE SelectSeq2(cols, {i \in DOMAIN cols :
                              cols[i] # ts_col /\ ~InKeyColumn(cols[i], kc)})

\* The key column taken as a list whatever its form.
KeyColumnsRaw(kc) == kc.names

\* get_attribute, lines 93-96: a string key column becomes a one-element list.
KeyColumns(kc) == IF kc.isStr THEN <<kc.s>> ELSE kc.names

\* lines 114-116: k = ids; a str or int is wrapped in a list, anything else
\* (a tuple, None) is passed on as it is.
WrapIds(value) ==
    IF value.scalar
    THEN IF value.v # Null
         THEN [isNone |-> FALSE, v |-> <<value.v>>]
         ELSE [isNone |-> TRUE, v |-> <<>>]
    ELSE [isNone |-> FALSE, v |-> value.tuple]

\* SparkTimeSeriesBackend(...) wrapped in a SingleTimeSeries.
SparkSeries(t, ts_col, val_cols, ids) ==
    [data_frame |-> t, timestamp_column |-> ts_col, value_columns |-> val_cols,
     ids |-> ids]

\* The body of `with EnsureCached(...)` for name == "timeseries".
TimeseriesBody(t, kc, ts_col, val_cols, order) ==
    IF Len(KeyColumns(kc)) = 0
    THEN [raised |-> FALSE,
          value |-> <<SparkSeries(t, ts_col, val_cols, [isNone |-> TRUE, v |-> <<>>])>>]
    ELSE LET g == mock_pd_groupby(t, KeyColumns(kc), order)
         IN IF g.raised
            THEN [raised |-> TRUE, value |-> <<>>]
            ELSE [raised |-> FALSE,
                  value |-> [i \in DOMAIN g.pairs |->
                               SparkSeries(g.pairs[i].sub_df, ts_col, val_cols,
                                           WrapIds(g.pairs[i].value))]]

\* A get_attribute that answers an unrecognized name with an empty default.
SparkMultiGetAttributeDefaulting(name, t, canCache, cached, kc, ts_col, val_cols, pid, order) ==
    [raised |-> FALSE,
     value |-> IF name = "id_labels" THEN KeyColumns(kc)
               ELSE IF name = "producer_id" THEN pid ELSE <<>>,
     is_cached |-> cached, unpersisted |-> 0]

\* SparkMultiTimeSeriesBackend.get_attribute: how the call ends, what it
\* returns, the table's pin state after it and the unpersist() calls made.
SparkMultiGetAttribute(name, t, canCache, cached, kc, ts_col, val_cols, pid, order) ==
    CASE name = "timeseries" ->
            LET g == EnsureCachedInit(canCache, cached)
                b == TimeseriesBody(t, kc, ts_col, val_cols, order)
                x == EnsureCachedExit(g, g.is_cached)
            IN [raised |-> b.raised, value |-> b.value,
                is_cached |-> x.is_cached, unpersisted |-> x.unpersisted]
      [] name = "id_labels" ->
            [raised |-> FALSE, value |-> KeyColumns(kc),
             is_cached |-> cached, unpersisted |-> 0]
      [] name = "producer_id" ->
            [raised |-> FALSE, value |-> pid,
             is_cached |-> cached, unpersisted |-> 0]
      [] OTHER ->
            [raised |-> TRUE, value |-> <<>>,
             is_cached |-> cached, unpersisted |-> 0]

\* The attribute names the embedded local backend of a single series knows.
SingleAttributes == {"values", "timestamps", "ids"}

\* PandasTimeSeriesBackend.get_attribute(..., external_df=...): the
\* projection asked for, or UnknownAttribute.
HelperGetAttribute(name, t, ts_col, val_cols) ==
    CASE name = "values" ->
            [raised |-> FALSE,
             value |-> [c \in DOMAIN val_cols |->
                          [i \in DOMAIN t.rows |-> t.rows[i][val_cols[c]]]]]
      [] name = "timestamps" ->
            [raised |-> FALSE,
             value |-> [i \in DOMAIN t.rows |->
                          IF ts_col = NoneStr THEN i - 1 ELSE t.rows[i][ts_col]]]
      [] name = "ids" -> [raised |-> FALSE, value |-> <<>>]
      [] OTHER -> [raised |-> TRUE, value |-> <<>>]

\* SparkTimeSeriesBackend.get_attribute: the helper's answer under a guard.
SparkSingleGetAttribute(name, t, canCache, cached, ts_col, val_cols) ==
    LET g == EnsureCachedInit(canCache, cached)
        b == HelperGetAttribute(name, t, ts_col, val_cols)
        x == EnsureCachedExit(g, g.is_cached)
    IN [raised |-> b.raised, value |-> b.value,
        is_cached |-> x.is_cached, unpersisted |-> x.unpersisted]

----------------------------------------------------------------------------
(* Spec: the distributed table, the guards over it, the backends' calls *)

KeyCols == <<"id", "grp">>
TableCols == <<"id", "grp", "d">>

\* Tables of at most MaxRows rows over TableCols.
SparkTables ==
    UNION {
        {[cols |-> TableCols,
          rows |-> [i \in 1..n |->
                      [x \in Range(TableCols) |->
                          IF x = "id" THEN a[i] ELSE IF x = "grp" THEN b[i] ELSE 10 + i]]] :
            a \in [1..n -> KeyVals], b \in [1..n -> {1, 2}]} :
        n \in 0..MaxRows}

\* The forms key_column takes: no key, one name as a string, a list of names.
KeyColumnForms ==
    {[isStr |-> FALSE, s |-> "", names |-> <<>>],
     [isStr |-> TRUE, s |-> "id", names |-> <<>>],
     [isStr |-> FALSE, s |-> "", names |-> <<"id">>],
     [isStr |-> FALSE, s |-> "", names |-> <<"id", "grp">>]}

ProducerId == <<"producer", "1.0">>

\* How often a conversion has run: never, once, or again after that.
OnceMore(n) == IF n = "never" THEN "once" ELSE "again"
NoConv == [concat |-> "never", toPandas |-> "never", createDataFrame |-> "never"]

NoCall == [kind |-> "none"]
NoScope == [phase |-> "none"]
Idle == [kind |-> "none"]
NoOut == [op |-> "none"]

AttributeNames == {"timeseries", "id_labels", "producer_id", "nonexistent_name"}
SingleNames == SingleAttributes \cup {"nonexistent_name"}

\* What Init fixes whatever the table is.
InitBackend(tables) ==
    /\ df \in tables
    /\ hasCache \in BOOLEAN
    /\ is_cached = FALSE
    /\ key_column \in KeyColumnForms
    /\ timestamp_column = NoneStr
    /\ value_columns = SparkMultiValueColumns(df.cols, key_column, NoneStr, <<>>)
    /\ guards = <<>>
    /\ scope = NoScope
    /\ last = NoCall
    /\ ts = Idle
    /\ out = NoOut
    /\ held0 = <<>>
    /\ conv = NoConv

\* A backend constructed over any table of the bound.
Init == InitBackend(SparkTables)

\* The tables the guards are exercised over: the grouped example (keys a, a,
\* None), one with a key the filter cannot quote, one with a NULL key, none.
TableOf(ids) ==
    [cols |-> TableCols,
     rows |-> [i \in DOMAIN ids |->
                 [x \in Range(TableCols) |->
                     IF x = "id" THEN ids[i] ELSE IF x = "grp" THEN 1 ELSE 10 + i]]]

GuardTables == {TableOf(<<1, 1, 2>>), TableOf(<<1, 3>>), TableOf(<<Null, 1>>), TableOf(<<>>)}

InitGuard == InitBackend(GuardTables)

\* The caller pins or unpins the table itself, outside every guard.
UserCache ==
    /\ guards = <<>>
    /\ hasCache
    /\ is_cached' = ~is_cached
    /\ scope' = NoScope
    /\ last' = NoCall
    /\ UNCHANGED <<df, hasCache, key_column, timestamp_column, value_columns, guards, fvars>>

\* with EnsureCached(df) as _:  (the caller's own guard, possibly nested)
GuardEnter ==
    /\ Len(guards) < MaxNest
    /\ LET g == EnsureCachedInit(hasCache, is_cached)
       IN /\ guards' = Append(guards, [did_cache |-> g.did_cache])
          /\ is_cached' = g.is_cached
          /\ scope' = IF guards = <<>>
                      THEN [phase |-> "open", before |-> is_cached, unpersists |-> 0,
                            exits |-> {}]
                      ELSE scope
    /\ last' = NoCall
    /\ UNCHANGED <<df, hasCache, key_column, timestamp_column, value_columns, fvars>>

\* The innermost open with block ends.
GuardExit ==
    /\ guards # <<>>
    /\ LET g == guards[Len(guards)]
           x == EnsureCachedExit(g, is_cached)
       IN /\ guards' = SubSeq(guards, 1, Len(guards) - 1)
          /\ is_cached' = x.is_cached
          /\ scope' = [scope EXCEPT
                         !.phase = IF Len(guards) = 1 THEN "closed" ELSE "open",
                         !.unpersists = @ + x.unpersisted,
                         !.exits = @ \cup {[depth |-> Len(guards),
                                            did_cache |-> g.did_cache,
                                            unpersisted |-> x.unpersisted]}]
    /\ last' = NoCall
    /\ UNCHANGED <<df, hasCache, key_column, timestamp_column, value_columns, fvars>>

\* What a get_attribute call that opened one guard of its own adds to the
\* history of the scope (its guard is the outermost one when none is open).
ScopeAfterCall(r, opened) ==
    IF guards = <<>>
    THEN IF opened
         THEN [phase |-> "closed", before |-> is_cached, unpersists |-> r.unpersisted,
               exits |-> {}]
         ELSE NoScope
    ELSE [scope EXCEPT !.unpersists = @ + r.unpersisted]

\* backend.get_attribute(cls, name) on the collection's backend.
MultiGetAttribute ==
    \E name \in AttributeNames :
    \E order \in SeqsOfSet(DistinctKeys(df, KeyColumns(key_column))) :
        LET r == SparkMultiGetAttribute(name, df, hasCache, is_cached, key_column,
                                        timestamp_column, value_columns, ProducerId, order)
        IN /\ is_cached' = r.is_cached
           /\ last' = [kind |-> "multi", name |-> name, before |-> is_cached,
                       raised |-> r.raised, value |-> r.value,
                       unpersisted |-> r.unpersisted]
           /\ scope' = ScopeAfterCall(r, name = "timeseries")
           /\ UNCHANGED <<df, hasCache, key_column, timestamp_column, value_columns,
                          guards, fvars>>

\* backend.get_attribute(cls, name) on a single series' backend over the table.
SingleGetAttribute ==
    \E name \in SingleNames :
        LET r == SparkSingleGetAttribute(name, df, hasCache, is_cached,
                                         timestamp_column, value_columns)
        IN /\ is_cached' = r.is_cached
           /\ last' = [kind |-> "single", name |-> name, before |-> is_cached,
                       raised |-> r.raised, value |-> r.value,
                       unpersisted |-> r.unpersisted]
           /\ scope' = ScopeAfterCall(r, TRUE)
           /\ UNCHANGED <<df, hasCache, key_column, timestamp_column, value_columns,
                          guards, fvars>>

\* The backends' calls over every table of the bound.
Next ==
    \/ UserCache
    \/ MultiGetAttribute
    \/ SingleGetAttribute

Spec == Init /\ [][Next]_vars

\* The same calls inside and outside the caller's own nested guards.
NextGuard ==
    \/ UserCache
    \/ GuardEnter
    \/ GuardExit
    \/ MultiGetAttribute
    \/ SingleGetAttribute

SpecGuard == InitGuard /\ [][NextGuard]_vars

----------------------------------------------------------------------------
(* timeseries.py: the TimeSeries facade *)


NoBackend == [kind |-> "none"]
Unset == [set |-> "unset", v |-> <<>>]
NoneAttr == [set |-> "none", v |-> <<>>]
ListAttr(v) == [set |-> "list", v |-> v]
NoTable == [cols |-> <<>>, rows |-> <<>>]
EmptyKey == [isStr |-> FALSE, s |-> "", names |-> <<>>]
\* key_column absent from the keyword arguments, or None
NoKeyColumn == [isStr |-> FALSE, s |-> NoneStr, names |-> <<>>]

\* PandasMultiTimeSeriesBackend(data_frame, key_column, timestamp_column):
\* holds the table it is given; the value columns are the columns that are
\* neither a key nor the timestamp.
PandasMultiBackend(t, kc, ts_col, val_cols) ==
    [kind |-> "pandas", df |-> t, key_column |-> kc, timestamp_column |-> ts_col,
     value_columns |->
        IF val_cols # <<>> THEN val_cols
        ELSE SelectSeq2(t.cols, {i \in DOMAIN t.cols :
                                    t.cols[i] # ts_col
                                    /\ t.cols[i] \notin Range(IF kc.isStr THEN <<kc.s>> ELSE kc.names)})]

\* SparkMultiTimeSeriesBackend(data_frame, key_column, timestamp_column)
SparkMultiBackend(t, kc, ts_col) ==
    [kind |-> "spark", df |-> t, key_column |-> kc, timestamp_column |-> ts_col,
     value_columns |-> SparkMultiValueColumns(t.cols, kc, ts_col, <<>>)]

\* __init__, lines 43-57: the timeseries= keyword.  `given` is the list
\* passed, or the one series passed when isList is false.
TimeSeriesInitKwargs(isList, given, labelsGiven, labels, have) ==
    [state |-> "ok", route |-> "kwargs", have_pyspark |-> have,
     timeseries |-> ListAttr(given),
     id_labels |-> IF ~isList THEN ListAttr(<<>>)
                   ELSE IF labelsGiven THEN ListAttr(labels) ELSE NoneAttr,
     backend |-> NoBackend]

\* __init__, lines 58-79: a positional data argument.
TimeSeriesInitArgs(nargs, kind, t, kcGiven, ts_col, have) ==
    LET kc == IF kcGiven = NoKeyColumn THEN EmptyKey ELSE kcGiven
        blank == [state |-> "ok", route |-> kind, have_pyspark |-> have,
                  timeseries |-> Unset, id_labels |-> Unset, backend |-> NoBackend]
    IN IF nargs = 0
       THEN [blank EXCEPT !.state = "failed"]
       ELSE IF kind = "pandas"
       THEN [blank EXCEPT !.backend = PandasMultiBackend(t, kc, ts_col, <<>>)]
       ELSE IF have /\ kind = "spark"
       THEN [blank EXCEPT !.backend = SparkMultiBackend(t, kc, ts_col)]
       ELSE blank

\* A series obtained from a backend with no key column: the whole table.
BackendSeries(b) ==
    [engine |-> b.kind, df |-> b.df,
     timestamp_label |-> IF b.timestamp_column = NoneStr THEN "" ELSE b.timestamp_column,
     value_labels |-> b.value_columns, ids |-> <<>>]

\* self.id_labels: the attribute when it was set, else the backend's
\* get_attribute("id_labels").
IdLabelsOf(e) ==
    IF e.id_labels.set = "list" THEN [ok |-> TRUE, v |-> e.id_labels.v]
    ELSE IF e.id_labels.set = "unset" /\ e.backend.kind # "none"
    THEN [ok |-> TRUE, v |-> KeyColumns(e.backend.key_column)]
    ELSE [ok |-> FALSE, v |-> <<>>]

\* self.timeseries[0] of an entity with no key label.
FirstSeriesOf(e) ==
    IF e.timeseries.set = "list" /\ e.timeseries.v # <<>>
    THEN [ok |-> TRUE, v |-> e.timeseries.v[1]]
    ELSE IF e.timeseries.set = "unset" /\ e.backend.kind # "none"
    THEN [ok |-> TRUE, v |-> BackendSeries(e.backend)]
    ELSE [ok |-> FALSE, v |-> <<>>]

\* DataFrame.toPandas(): the rows as a new local table.
ToPandas(t) == [cols |-> t.cols, rows |-> t.rows]

\* SingleTimeSeries.as_pandas(include_timestamps): the series' table, with
\* a positional timestamp column added or its timestamp column left out.
SingleAsPandas(series, inc) ==
    IF inc = "True" /\ series.timestamp_label = ""
    THEN SetColumn(series.df, "timestamp", [i \in DOMAIN series.df.rows |-> i - 1])
    ELSE IF inc = "False" /\ series.timestamp_label # ""
    THEN DropColumn(series.df, series.timestamp_label)
    ELSE series.df

\* SingleTimeSeries.as_spark(include_timestamps): the same rows as a
\* distributed table.
SingleAsSpark(series, inc) == SingleAsPandas(series, inc)

\* lines 135-137: df[key_columns[i]] = [id, ...] for the first n key labels.
RECURSIVE WriteKeys(_, _, _, _)
WriteKeys(t, labels, ids, n) ==
    IF n = 0 THEN t
    ELSE SetColumn(WriteKeys(t, labels, ids, n - 1), labels[n],
                   [i \in DOMAIN t.rows |-> ids[n]])

Min(a, b) == IF a < b THEN a ELSE b

\* lines 128-138 for one series: the table the loop leaves in `df`, and
\* whether ts.ids.values[i] ran out of ids.
KeyedTable(series, labels) ==
    [raised |-> Len(series.ids) < Len(labels),
     table |-> WriteKeys(series.df, labels, series.ids,
                         Min(Len(labels), Len(series.ids)))]

\* The index of the first series the loop fails on (0: none).
FirstFailing(keyed) ==
    IF \E j \in DOMAIN keyed : keyed[j].raised
    THEN CHOOSE j \in DOMAIN keyed :
            /\ keyed[j].raised
            /\ \A k \in 1..(j - 1) : ~keyed[k].raised
    ELSE 0

\* SingleTimeSeries._get_pd_df()[0] hands out the local table a pandas-backed
\* series holds (its backend owns the table by reference), and a new table
\* (toPandas, line 205) for a distributed one.
HandsOutHeldTable(series) == series.engine = "pandas"

\* The series after the loop of lines 128-138: its writes land in the table
\* `df` names, the held table of a pandas-backed series.
SeriesAfterLoop(list, keyed) ==
    LET f == FirstFailing(keyed)
    IN [j \in DOMAIN list |->
          IF HandsOutHeldTable(list[j]) /\ (f = 0 \/ j <= f)
          THEN [list[j] EXCEPT !.df = keyed[j].table]
          ELSE list[j]]

\* pd.concat(dfs, ignore_index=True) of tables with the same columns.
RECURSIVE ConcatRows(_)
ConcatRows(dfs) ==
    IF dfs = <<>> THEN <<>>
    ELSE ConcatRows(SubSeq(dfs, 1, Len(dfs) - 1)) \o dfs[Len(dfs)].rows

\* _get_pd_df, lines 124-153, given the table the loop built for each
\* series: concatenate, keep the result as the entity's backend.
ConcatSeries(e, c, keyed) ==
    LET list == e.timeseries.v
        after == [e EXCEPT !.timeseries = ListAttr(SeriesAfterLoop(list, keyed))]
    IN IF FirstFailing(keyed) # 0
       THEN [raised |-> TRUE, table |-> NoTable, ts |-> after, conv |-> c]
       ELSE LET result == [cols |-> keyed[1].table.cols,
                           rows |-> ConcatRows([j \in DOMAIN keyed |-> keyed[j].table])]
                ts_col == IF list[1].timestamp_label # ""
                          THEN list[1].timestamp_label ELSE NoneStr
            IN [raised |-> FALSE, table |-> result,
                ts |-> [after EXCEPT !.backend =
                           PandasMultiBackend(result,
                               [isStr |-> FALSE, s |-> "", names |-> e.id_labels.v],
                               ts_col, list[1].value_labels)],
                conv |-> [c EXCEPT !.concat = OnceMore(@)]]

\* _get_pd_df: the table, the entity after the call, the conversions made.
GetPdDf(e, c) ==
    IF e.backend.kind = "spark"
    THEN [raised |-> FALSE, table |-> ToPandas(e.backend.df), ts |-> e,
          conv |-> [c EXCEPT !.toPandas = OnceMore(@)]]
    ELSE IF e.backend.kind = "pandas"
    THEN [raised |-> FALSE, table |-> e.backend.df, ts |-> e, conv |-> c]
    ELSE IF e.timeseries.set # "list" \/ e.id_labels.set # "list"
    THEN [raised |-> TRUE, table |-> NoTable, ts |-> e, conv |-> c]
    ELSE Only({ConcatSeries(e, c, keyed) :
                 keyed \in {[j \in DOMAIN e.timeseries.v |->
                               KeyedTable(e.timeseries.v[j], e.id_labels.v)]}})

\* A reserved column added whenever the caller gave any is_multi hint.
AddReservedIfHinted(t, multi) ==
    IF multi # "None"
    THEN SetColumn(t, "WATSON_TS_RESERVED", [i \in DOMAIN t.rows |-> 0])
    ELSE t

\* as_pandas, lines 170-174: is_multi True on an entity with no key label
\* copies the table and adds the reserved column, 0 in every row.
AddReserved(t, multi) ==
    IF multi = "True"
    THEN SetColumn(t, "WATSON_TS_RESERVED", [i \in DOMAIN t.rows |-> 0])
    ELSE t

\* as_spark, lines 205-211: the same through the pandas API of the engine.
AddReservedSpark(t, multi) ==
    IF multi = "True"
    THEN SetColumn(t, "WATSON_TS_RESERVED", [i \in DOMAIN t.rows |-> 0])
    ELSE t

\* Rows numbered through the whole table, not per key.
TableRank(t, by) == [i \in DOMAIN t.rows |-> i - 1]

\* groupby(key, sort=False)["timestamp"].transform(range(len)): each row's
\* position among the rows of its own key.
GroupRank(t, by) ==
    [i \in DOMAIN t.rows |->
        Cardinality({j \in 1..(i - 1) : KeyOf(t.rows[j], by) = KeyOf(t.rows[i], by)})]

\* A grouped export that leaves the timestamp column out unless timestamps
\* were asked for (`not include_timestamps` without the None test).
GroupedExportTruthy(g, inc) ==
    IF g.raised THEN g
    ELSE LET b == g.ts.backend
         IN IF inc # "True" /\ b.timestamp_column # NoneStr
            THEN [g EXCEPT !.table = DropColumn(g.table, b.timestamp_column)]
            ELSE g

\* lines 176-194: the export of a grouped entity, given what _get_pd_df
\* returned.
GroupedExport(g, inc) ==
    IF g.raised THEN g
    ELSE LET b == g.ts.backend
             by == IF b.key_column.isStr THEN <<b.key_column.s>> ELSE b.key_column.names
         IN IF inc = "True" /\ b.timestamp_column = NoneStr
            THEN [g EXCEPT !.table =
                     SetColumn(g.table, "timestamp", GroupRank(g.table, by))]
            ELSE IF inc = "False" /\ b.timestamp_column # NoneStr
            THEN [g EXCEPT !.table = DropColumn(g.table, b.timestamp_column)]
            ELSE g

\* as_pandas(include_timestamps, is_multi)
AsPandas(e, c, inc, multi) ==
    LET labels == IdLabelsOf(e)
        fail == [raised |-> TRUE, table |-> NoTable, ts |-> e, conv |-> c]
    IN IF ~labels.ok THEN fail
       ELSE IF Len(labels.v) = 0
       THEN LET first == FirstSeriesOf(e)
            IN IF ~first.ok THEN fail
               ELSE [raised |-> FALSE,
                     table |-> AddReserved(SingleAsPandas(first.v, inc), multi),
                     ts |-> e, conv |-> c]
       ELSE Only({GroupedExport(g, inc) : g \in {GetPdDf(e, c)}})

\* __len__
LenOf(e, c) ==
    IF e.backend.kind = "none"
    THEN Only({[raised |-> r.raised, n |-> Len(r.table.rows), ts |-> r.ts, conv |-> r.conv] :
                 r \in {AsPandas(e, c, "None", "None")}})
    ELSE [raised |-> FALSE, n |-> Len(e.backend.df.rows), ts |-> e, conv |-> c]

\* strip_periodic(input_df, create_copy=True): no column of these tables has
\* a period dtype, so index is -1 and input_df is returned.
StripPeriodic(t) == t

\* row_number() OVER (PARTITION BY keys ORDER BY keys) - 1: within each key
\* the rows are numbered from 0 in an order the engine chooses.
WindowRanks(t, by) ==
    {f \in [DOMAIN t.rows -> 0..(Len(t.rows) - 1)] :
        \A i \in DOMAIN t.rows :
            LET grp == {j \in DOMAIN t.rows : KeyOf(t.rows[j], by) = KeyOf(t.rows[i], by)}
            IN /\ f[i] < Cardinality(grp)
               /\ \A j \in grp : f[j] = f[i] => j = i}

\* as_spark(include_timestamps, is_multi); `rank` is the numbering the
\* window function produced.
AsSpark(e, c, inc, multi, rank) ==
    LET labels == IdLabelsOf(e)
        fail == [raised |-> TRUE, table |-> NoTable, ts |-> e, conv |-> c]
    IN IF ~e.have_pyspark \/ ~labels.ok THEN fail
       ELSE IF Len(labels.v) = 0
       THEN LET first == FirstSeriesOf(e)
            IN IF ~first.ok THEN fail
               ELSE [raised |-> FALSE,
                     table |-> AddReservedSpark(SingleAsSpark(first.v, inc), multi),
                     ts |-> e, conv |-> c]
       ELSE IF e.backend.kind = "spark"
       THEN LET b == e.backend
            IN [raised |-> FALSE,
                table |-> IF inc = "True" /\ b.timestamp_column = NoneStr
                          THEN SetColumn(b.df, "timestamp", rank)
                          ELSE IF inc = "False" /\ b.timestamp_column # NoneStr
                          THEN DropColumn(b.df, b.timestamp_column)
                          ELSE b.df,
                ts |-> e, conv |-> c]
       ELSE Only({IF r.raised THEN r
                  ELSE [r EXCEPT !.table = StripPeriodic(r.table),
                                 !.conv = [r.conv EXCEPT !.createDataFrame = OnceMore(@)]] :
                    r \in {AsPandas(e, c, inc, "None")}})

----------------------------------------------------------------------------
(* SpecTS: one TimeSeries entity *)

Hints == {"None", "True", "False"}

\* The series a caller builds: `n` rows of a value column, with or without a
\* timestamp column, held locally or by the distributed engine.
UserSeries(engine, tsl, ids, n) ==
    [engine |-> engine,
     df |-> [cols |-> IF tsl = "" THEN <<"val">> ELSE <<tsl, "val">>,
             rows |-> [i \in 1..n |->
                         [x \in (IF tsl = "" THEN {"val"} ELSE {tsl, "val"}) |->
                             IF x = "val" THEN 10 + i ELSE 100 + i]]],
     timestamp_label |-> tsl, value_labels |-> <<"val">>, ids |-> ids]

IdTuples == {<<>>, <<1>>, <<2>>, <<1, 2>>}
LabelLists == {<<>>, <<"id">>, <<"id", "grp">>}

\* The local and distributed tables handed to the constructor: the ids are
\* non-null values, the second key alternates from row to row, the value
\* column numbers the rows.
FacadeTables(ts_col) ==
    LET cols == IF ts_col = NoneStr THEN <<"id", "grp", "val">>
                ELSE <<"id", "grp", ts_col, "val">>
    IN UNION {
        {[cols |-> cols,
          rows |-> [i \in 1..n |->
                      [x \in Range(cols) |->
                          IF x = "id" THEN a[i] ELSE IF x = "grp" THEN 1 + (i % 2)
                          ELSE IF x = "val" THEN 10 + i ELSE 100 + i]]] :
            a \in [1..n -> {1, 2}]} :
        n \in 0..MaxRows}

FacadeKeyForms ==
    {NoKeyColumn,
     [isStr |-> TRUE, s |-> "id", names |-> <<>>],
     [isStr |-> FALSE, s |-> "", names |-> <<"id">>],
     [isStr |-> FALSE, s |-> "", names |-> <<"id", "grp">>]}

\* The tables an entity holds: those of its series and that of its backend.
HeldTables(e) ==
    [series |-> IF e.timeseries.set = "list"
                THEN [j \in DOMAIN e.timeseries.v |-> e.timeseries.v[j].df]
                ELSE <<>>,
     backend |-> IF e.backend.kind = "none" THEN NoTable ELSE e.backend.df]

InitTS ==
    /\ df = NoTable
    /\ hasCache = TRUE
    /\ is_cached = FALSE
    /\ key_column = EmptyKey
    /\ timestamp_column = NoneStr
    /\ value_columns = <<>>
    /\ guards = <<>>
    /\ scope = NoScope
    /\ last = NoCall
    /\ ts = [state |-> "new"]
    /\ out = NoOut
    /\ held0 = <<>>
    /\ conv = NoConv

Constructed(e) ==
    /\ ts' = e
    /\ held0' = IF e.state = "ok" THEN HeldTables(e) ELSE <<>>
    /\ out' = NoOut
    /\ conv' = NoConv
    /\ UNCHANGED bvars

\* TimeSeries(timeseries=series) and TimeSeries(timeseries=[...], id_labels=...)
ConstructFromKwargs ==
    /\ ts.state = "new"
    /\ \E engine \in {"pandas", "spark"}, tsl \in {"", "ts"}, n \in {MaxRows} :
         \/ \E ids \in IdTuples :
              Constructed(TimeSeriesInitKwargs(FALSE, <<UserSeries(engine, tsl, ids, n)>>,
                                               FALSE, <<>>, TRUE))
         \/ \E len \in 1..MaxSeries :
            \E idsOf \in [1..len -> IdTuples] :
            \E labelsGiven \in BOOLEAN :
            \E labels \in (IF labelsGiven THEN LabelLists ELSE {<<>>}) :
              Constructed(TimeSeriesInitKwargs(
                  TRUE, [j \in 1..len |-> UserSeries(engine, tsl, idsOf[j], n)],
                  labelsGiven, labels, TRUE))

\* TimeSeries(data, key_column=..., timestamp_column=...), TimeSeries()
ConstructFromArgs ==
    /\ ts.state = "new"
    /\ \/ \E have \in BOOLEAN :
            Constructed(TimeSeriesInitArgs(0, "none", NoTable, NoKeyColumn, NoneStr, have))
       \/ \E have \in BOOLEAN :
            Constructed(TimeSeriesInitArgs(1, "other", NoTable, NoKeyColumn, NoneStr, have))
       \/ \E have \in BOOLEAN, kind \in {"pandas", "spark"}, kc \in FacadeKeyForms,
             ts_col \in {NoneStr, "ts"} :
          \E t \in FacadeTables(ts_col) :
            /\ kind = "spark" => have
            /\ Constructed(TimeSeriesInitArgs(1, kind, t, kc, ts_col, have))

\* len(ts)
LenCall ==
    /\ ts.state = "ok"
    /\ \E r \in {LenOf(ts, conv)} :
          /\ ts' = r.ts
          /\ conv' = r.conv
          /\ out' = [op |-> "len", inc |-> "None", multi |-> "None",
                     raised |-> r.raised, table |-> NoTable, n |-> r.n]
    /\ UNCHANGED <<held0, bvars>>

\* ts.as_pandas(include_timestamps, is_multi)
AsPandasCall ==
    /\ ts.state = "ok"
    /\ \E inc \in Hints, multi \in Hints :
         \E r \in {AsPandas(ts, conv, inc, multi)} :
            /\ ts' = r.ts
            /\ conv' = r.conv
            /\ out' = [op |-> "as_pandas", inc |-> inc, multi |-> multi,
                       raised |-> r.raised, table |-> r.table, n |-> 0]
    /\ UNCHANGED <<held0, bvars>>

\* ts.as_spark(include_timestamps, is_multi)
AsSparkCall ==
    /\ ts.state = "ok"
    /\ \E inc \in Hints, multi \in Hints :
       \E rank \in (IF ts.backend.kind = "spark" /\ IdLabelsOf(ts).ok
                    THEN WindowRanks(ts.backend.df, IdLabelsOf(ts).v)
                    ELSE {<<>>}) :
         \E r \in {AsSpark(ts, conv, inc, multi, rank)} :
            /\ ts' = r.ts
            /\ conv' = r.conv
            /\ out' = [op |-> "as_spark", inc |-> inc, multi |-> multi,
                       raised |-> r.raised, table |-> r.table, n |-> 0]
    /\ UNCHANGED <<held0, bvars>>

NextTS ==
    \/ ConstructFromKwargs
    \/ ConstructFromArgs
    \/ LenCall
    \/ AsPandasCall
    \/ AsSparkCall

SpecTS == InitTS /\ [][NextTS]_vars

----------------------------------------------------------------------------
(* Properties of the guard and of the distributed backends *)

\* C1: when a get_attribute call on a distributed single series or
\* collection returns or raises, the table's pin state is the one it had
\* immediately before the call, for every attribute name and either pin
\* state.
PinBalance == last.kind # "none" => is_cached = last.before

\* A collection's "timeseries" call that raised inside its guard, over a
\* table that was not pinned: the guard pinned and unpinned it.
PinBalanceWitness ==
    /\ last.kind = "multi"
    /\ last.name = "timeseries"
    /\ last.raised
    /\ ~last.before
    /\ last.unpersisted = 1

\* C2: a guard unpins on exit exactly when it pinned at construction; so,
\* over nested guards, a table that can be pinned is pinned from the
\* outermost guard's construction to its exit, no inner exit unpins it,
\* unpersist is called at most once, a table pinned beforehand is never
\* unpinned, and the scope leaves the pin state as it found it.
GuardNesting ==
    /\ (guards # <<>> /\ hasCache) => is_cached
    /\ \A i \in DOMAIN guards : guards[i].did_cache => i = 1
    /\ scope.phase # "none" =>
         /\ scope.unpersists <= 1
         /\ scope.before => scope.unpersists = 0
         /\ \A e \in scope.exits :
              /\ (e.unpersisted = 1) <=> e.did_cache
              /\ e.depth > 1 => e.unpersisted = 0
         /\ scope.phase = "closed" => is_cached = scope.before

\* Inside the outermost guard, which pinned the table, after an inner guard
\* has been left: the table is still pinned.
GuardNestingWitness ==
    /\ Len(guards) = 1
    /\ guards[1].did_cache
    /\ scope.phase = "open"
    /\ scope.exits # {}
    /\ is_cached

\* The key columns of the backend as the caller gave them, a single string
\* counting as one name.
GivenKeyNames == IF key_column.isStr THEN <<key_column.s>> ELSE key_column.names

\* The key-tuple a returned series stands for.
SeriesIds(series) == IF series.ids.isNone THEN <<>> ELSE series.ids.v

----------------------------------------------------------------------------
(* Properties of the TimeSeries facade *)

Exported == out.op \in {"as_pandas", "as_spark"} /\ ~out.raised

\* C3: construction with a positional data argument that is neither a local
\* nor a distributed table fails, and no constructed entity is left with
\* neither a backend nor a list of series.
UnusableDataRejected ==
    /\ (ts.state # "new" /\ ts.route = "other") => ts.state = "failed"
    /\ ts.state = "ok" => (ts.backend.kind # "none" \/ ts.timeseries.set = "list")

\* C4: an export of an entity with key labels leaves out every key column
\* for is_multi=False, and has them all for is_multi True or None.
KeysDroppedForSingle ==
    (Exported /\ IdLabelsOf(ts).ok /\ IdLabelsOf(ts).v # <<>>) =>
        IF out.multi = "False"
        THEN Range(IdLabelsOf(ts).v) \cap Range(out.table.cols) = {}
        ELSE Range(IdLabelsOf(ts).v) \subseteq Range(out.table.cols)

\* C5: in every constructed entity each series' id-tuple is as long as the
\* list of key labels (an input where they differ is rejected).
IdTupleMatchesLabels ==
    ts.state = "ok" =>
        /\ ts.timeseries.set = "list" =>
             /\ ts.id_labels.set = "list"
             /\ \A j \in DOMAIN ts.timeseries.v :
                    Len(ts.timeseries.v[j].ids) = Len(ts.id_labels.v)
        /\ (ts.backend.kind # "none" /\ KeyColumns(ts.backend.key_column) # <<>>) =>
             \A k \in DistinctKeys(ts.backend.df, KeyColumns(ts.backend.key_column)) :
                 Len(WrapIds(GroupValue(k)).v) = Len(KeyColumns(ts.backend.key_column))

\* C7: a constructed entity always has a storage mode to read from (the
\* backend when one is set, else the list of series), and each conversion
\* between representations is carried out at most once: a later call reuses
\* the result kept on the entity instead of converting again.
OneModeConvertedOnce ==
    (ts.state = "ok" /\ ts.route # "other") =>
        /\ ts.timeseries.set = "list" \/ ts.backend.kind # "none"
        /\ conv.concat # "again"
        /\ conv.toPandas # "again"
        /\ conv.createDataFrame # "again"

\* C8: the tables the entity held at construction, those of its series and
\* that of its backend, keep their columns and rows through every call.
HeldTablesUntouched ==
    ts.state = "ok" =>
        /\ HeldTables(ts).series = held0.series
        /\ held0.backend # NoTable => HeldTables(ts).backend = held0.backend

\* C9: for an entity without key labels, is_multi=True exports the single
\* series' table plus one column WATSON_TS_RESERVED that is 0 in every row;
\* is_multi False or None exports the table with nothing added.
ReservedColumnAdded ==
    (Exported /\ IdLabelsOf(ts).ok /\ IdLabelsOf(ts).v = <<>>) =>
        LET base == SingleAsPandas(FirstSeriesOf(ts).v, out.inc)
        IN IF out.multi = "True"
           THEN /\ out.table.cols = Append(base.cols, "WATSON_TS_RESERVED")
                /\ DOMAIN out.table.rows = DOMAIN base.rows
                /\ \A i \in DOMAIN base.rows :
                     /\ out.table.rows[i]["WATSON_TS_RESERVED"] = 0
                     /\ \A x \in Range(base.cols) : out.table.rows[i][x] = base.rows[i][x]
           ELSE out.table = base

\* The example of two value rows and no key, exported with is_multi=True.
ReservedColumnWitness ==
    /\ Exported
    /\ out.op = "as_pandas"
    /\ out.multi = "True"
    /\ ts.route = "pandas"
    /\ IdLabelsOf(ts).v = <<>>
    /\ Len(out.table.rows) = 2
    /\ \A i \in DOMAIN out.table.rows : out.table.rows[i]["WATSON_TS_RESERVED"] = 0

\* C10: for a grouped entity whose backend has no timestamp column, an
\* export with include_timestamps=True adds a timestamp column in which the
\* rows of each key-tuple are numbered from 0 (each row its rank within its
\* own group; as_pandas ranks by row order) and changes no other column.
RankWithinGroup ==
    (Exported /\ out.inc = "True" /\ IdLabelsOf(ts).ok /\ IdLabelsOf(ts).v # <<>>
       /\ ts.backend.kind # "none" /\ ts.backend.timestamp_column = NoneStr) =>
        LET base == ts.backend.df
            by == IdLabelsOf(ts).v
            rows == out.table.rows
            Group(i) == {j \in DOMAIN base.rows : KeyOf(base.rows[j], by) = KeyOf(base.rows[i], by)}
        IN /\ out.table.cols = Append(base.cols, "timestamp")
           /\ DOMAIN rows = DOMAIN base.rows
           /\ \A i \in DOMAIN base.rows :
                /\ \A x \in Range(base.cols) : rows[i][x] = base.rows[i][x]
                /\ rows[i]["timestamp"] \in 0..(Cardinality(Group(i)) - 1)
                /\ \A j \in Group(i) : rows[j]["timestamp"] = rows[i]["timestamp"] => j = i
                /\ out.op = "as_pandas" =>
                     rows[i]["timestamp"] = Cardinality({j \in Group(i) : j < i})

\* A distributed-backed entity whose two rows share their key, exported by
\* as_spark: the rows are numbered 0 and 1.
RankWithinGroupWitness ==
    /\ Exported
    /\ out.op = "as_spark"
    /\ out.inc = "True"
    /\ ts.backend.kind = "spark"
    /\ ts.backend.timestamp_column = NoneStr
    /\ IdLabelsOf(ts).v = <<"id">>
    /\ Len(out.table.rows) = 2
    /\ out.table.rows[1]["id"] = out.table.rows[2]["id"]
    /\ {out.table.rows[1]["timestamp"], out.table.rows[2]["timestamp"]} = {0, 1}

----------------------------------------------------------------------------
(* Properties of the backends, continued *)

\* C11: get_attribute with a name outside the recognized set raises on the
\* collection's backend and on a single series' backend alike, returns no
\* value, and leaves the table, the key, timestamp and value columns and the
\* table's pin state as they were before the call.
UnknownAttributeRaises ==
    [][(last'.kind # "none" /\ last'.name = "nonexistent_name") =>
          /\ last'.raised
          /\ last'.value = <<>>
          /\ is_cached' = is_cached
          /\ UNCHANGED <<df, key_column, timestamp_column, value_columns>>]_vars

\* An unrecognized name asked of the collection's backend over a pinned,
\* non-empty table.
UnknownAttributeWitness ==
    /\ last.kind = "multi"
    /\ last.name = "nonexistent_name"
    /\ last.raised
    /\ is_cached
    /\ Len(df.rows) > 0

\* C12: an entity constructed from a local table and exported by as_pandas
\* with include_timestamps=None and the is_multi of its shape (True with key
\* columns, False without) gives back the input's columns (but for a
\* synthesized timestamp column) and the same rows, each as many times.
RoundTripLocalTable ==
    (Exported /\ out.op = "as_pandas" /\ out.inc = "None" /\ ts.route = "pandas"
       /\ out.multi = (IF IdLabelsOf(ts).v = <<>> THEN "False" ELSE "True")) =>
        LET input == held0.backend
            cols == Range(input.cols)
            Proj(r) == [x \in cols |-> r[x]]
        IN /\ Range(out.table.cols) \ {"timestamp"} = cols
           /\ Len(out.table.rows) = Len(input.rows)
           /\ \A i \in DOMAIN input.rows :
                Cardinality({j \in DOMAIN input.rows : input.rows[j] = input.rows[i]})
                  = Cardinality({j \in DOMAIN out.table.rows :
                                    Proj(out.table.rows[j]) = input.rows[i]})

\* A two-row local table with a timestamp column, keyed by id and grp,
\* exported as a grouped table.
RoundTripWitness ==
    /\ Exported
    /\ out.op = "as_pandas"
    /\ out.inc = "None"
    /\ out.multi = "True"
    /\ ts.route = "pandas"
    /\ IdLabelsOf(ts).v = <<"id", "grp">>
    /\ ts.backend.timestamp_column = "ts"
    /\ Len(held0.backend.rows) = 2
    /\ Len(out.table.rows) = 2

\* C13: a backend constructed without value_columns has as value columns
\* the table's columns that are neither a key column nor the timestamp
\* column, in table order, whether key_column is a string or a sequence.
DefaultValueColumns ==
    value_columns =
        SelectSeq2(df.cols, {i \in DOMAIN df.cols :
                                /\ df.cols[i] # timestamp_column
                                /\ df.cols[i] \notin Range(KeyColumns(key_column))})

\* C14: get_attribute("timeseries") over a keyed table gets from
\* mock_pd_groupby one sub-table per distinct key-tuple, holding exactly the
\* rows whose key columns equal that tuple, so that every row of the table
\* is in exactly one sub-table, whatever the key cells hold.
GroupbyPartitions ==
    (last.kind = "multi" /\ last.name = "timeseries" /\ KeyColumns(key_column) # <<>>) =>
        /\ ~last.raised
        /\ \E order \in SeqsOfSet(DistinctKeys(df, KeyColumns(key_column))) :
             /\ Len(order) = Len(last.value)
             /\ \A j \in DOMAIN order :
                  last.value[j].data_frame.rows =
                      SelectSeq2(df.rows,
                                 {i \in DOMAIN df.rows :
                                     KeyOf(df.rows[i], KeyColumns(key_column)) = order[j]})

====
